---- MODULE Spec2Model ----
(***************************************************************************)
(* Model of src/blockchain_network_render.py: the Block and Blockchain     *)
(* classes (hashing, Merkle root, proof of work, mining, validation,       *)
(* balances) and the way the Flask routes drive them from request threads. *)
(*                                                                         *)
(* Python lists are objects: `lists` is the heap of list objects and a     *)
(* list is named by its index in it.  Blockchain.mempool and               *)
(* Block.transactions hold such references, so that the aliasing made by   *)
(* Block(len(self.chain), self.mempool, ...) is visible in the model.      *)
(*                                                                         *)
(* A str holding a SHA-256 hex digest is modelled by the term              *)
(* <<"sha256", preimage>> (no collisions) together with HexDigest, a small *)
(* digest of HexLen digits computed from the preimage, which decides       *)
(* startswith('0' * difficulty).                                           *)
(***************************************************************************)
EXTENDS Integers, Sequences, FiniteSets, Bags, TLC

VARIABLES lists, chain, mempool, difficulty, clock, pc, loc, result, submitted, tampers

vars == <<lists, chain, mempool, difficulty, clock, pc, loc, result, submitted, tampers>>

(***************************************************************************)
(* Bounds of the model.                                                    *)
(***************************************************************************)
\* blocks in the chain, genesis included
MaxChain == 3
\* transactions waiting in the mempool when add_transaction is called
MaxMempool == 2
\* values time.time() takes
MaxClock == 2
\* difficulties a Blockchain is constructed with: 0..MaxDifficulty
MaxDifficulty == 2
\* digits of a hash string (64 in a SHA-256 hexdigest)
HexLen == 1
\* values of one digit of a hash string (16 in a hexdigest)
HexRadix == 4

(***************************************************************************)
(* Program constants.                                                      *)
(***************************************************************************)
\* create_transaction("network", miner_address, 10)
MiningReward == 10
\* the mints of create_genesis_block
GenesisGrant == 1000
GenesisMinerGrant == 500

Addresses == {"network", "Alice", "Bob", "Charlie", "miner1"}
\* miner addresses mine_block is called with (the default is "miner1")
Miners == {"miner1", "Alice"}
\* (sender, recipient, amount) of the transactions submitted
Transfers == { <<"Alice", "Bob", 30>>, <<"Bob", "Alice", 2000>> }

\* None
NoneVal == <<>>
\* values a method returns, with their Python type
PyBool(b) == <<"bool", b>>
PyNum(n) == <<"number", n>>
PyBlock(b) == <<"Block", b>>
\* the str "0", previous_hash of the genesis block
ZeroHash == <<"0">>

RECURSIVE Pow(_, _)
Pow(b, e) == IF e = 0 THEN 1 ELSE b * Pow(b, e - 1)

\* number of distinct digests
HashSpace == Pow(HexRadix, HexLen)

(***************************************************************************)
(* Transactions and hashing.                                               *)
(***************************************************************************)
\* mutant: sender and recipient exchanged
create_transaction_swapped(sender, recipient, amount, now) ==
    [sender |-> recipient, recipient |-> sender, amount |-> amount, timestamp |-> now]

create_transaction(sender, recipient, amount, now) ==
    [sender |-> sender, recipient |-> recipient, amount |-> amount, timestamp |-> now]

\* json.dumps(tx, sort_keys=True): the values in the order of the sorted keys
JsonTx(tx) == <<tx.amount, tx.recipient, tx.sender, tx.timestamp>>

JsonTxs(txs) == [i \in 1..Len(txs) |-> JsonTx(txs[i])]

\* hashlib.sha256(x).hexdigest() as a collision-free term
Sha256(x) == <<"sha256", x>>

AddrCode(a) ==
    CASE a = "network" -> 1
      [] a = "Alice" -> 2
      [] a = "Bob" -> 3
      [] a = "Charlie" -> 4
      [] OTHER -> 5

JsonTxWeight(j) == j[1] + 3 * AddrCode(j[2]) + 5 * AddrCode(j[3]) + 7 * j[4]

RECURSIVE JsonTxsWeight(_)
JsonTxsWeight(js) ==
    IF js = <<>> THEN 0
    ELSE Len(js) * JsonTxWeight(js[Len(js)]) + JsonTxsWeight(SubSeq(js, 1, Len(js) - 1))

\* digest of a Merkle node: a leaf Sha256(JsonTx), an inner node Sha256(<<l, r>>) or None
RECURSIVE MerkleWeight(_)
MerkleWeight(m) ==
    IF m = NoneVal THEN 0
    ELSE IF Len(m[2]) = 2 THEN (2 * MerkleWeight(m[2][1]) + 3 * MerkleWeight(m[2][2]) + 1) % HashSpace
    ELSE JsonTxWeight(m[2]) % HashSpace

\* the number the digits of a block hash are taken from; a block hash is
\* Sha256(<<index, merkle_root, nonce, previous_hash, timestamp, transactions>>)
RECURSIVE HexDigest(_)
HexDigest(h) ==
    IF Len(h) = 1 THEN 0
    ELSE LET d == h[2]
         IN (3 * d[1] + MerkleWeight(d[2]) + d[3] + 5 * HexDigest(d[4]) + 7 * d[5]
                + JsonTxsWeight(d[6])) % HashSpace

\* the k-th character of the hash string, most significant first
HexDigit(h, k) == (HexDigest(h) \div Pow(HexRadix, HexLen - k)) % HexRadix

\* h.startswith('0' * d)
StartsWithZeros(h, d) == d <= HexLen /\ \A k \in 1..d : HexDigit(h, k) = 0

(***************************************************************************)
(* class Block                                                             *)
(***************************************************************************)
\* mutant: the last hash of an odd level goes up as it is
MerkleLevelCarry(hashes) ==
    [k \in 1..((Len(hashes) + 1) \div 2) |->
        IF 2 * k <= Len(hashes)
        THEN Sha256(<<hashes[2 * k - 1], hashes[2 * k]>>)
        ELSE hashes[2 * k - 1]]

\* one level of the reduction: the loop over range(0, len(hashes), 2)
MerkleLevel(hashes) ==
    [k \in 1..((Len(hashes) + 1) \div 2) |->
        IF 2 * k <= Len(hashes)
        THEN Sha256(<<hashes[2 * k - 1], hashes[2 * k]>>)
        ELSE Sha256(<<hashes[2 * k - 1], hashes[2 * k - 1]>>)]

RECURSIVE MerkleReduce(_)
MerkleReduce(hashes) ==
    IF Len(hashes) > 1 THEN MerkleReduce(MerkleLevel(hashes)) ELSE hashes[1]

\* mutant: the leaves are put in the order of their digests first
compute_merkle_root_sorted(txs) ==
    IF txs = <<>> THEN NoneVal
    ELSE LET leaves == [i \in 1..Len(txs) |-> Sha256(JsonTx(txs[i]))]
             Before(i, j) == \/ MerkleWeight(leaves[i]) < MerkleWeight(leaves[j])
                             \/ MerkleWeight(leaves[i]) = MerkleWeight(leaves[j]) /\ i < j
             Rank(i) == 1 + Cardinality({ j \in 1..Len(txs) : Before(j, i) })
         IN MerkleReduce([r \in 1..Len(txs) |->
                             leaves[CHOOSE i \in 1..Len(txs) : Rank(i) = r]])

compute_merkle_root(txs) ==
    IF txs = <<>> THEN NoneVal
    ELSE MerkleReduce([i \in 1..Len(txs) |-> Sha256(JsonTx(txs[i]))])

\* mutant: 'previous_hash' is left out of block_data
compute_hash_unlinked(block, txs) ==
    Sha256(<<block.index, block.merkle_root, block.nonce, ZeroHash,
             block.timestamp, JsonTxs(txs)>>)

\* mutant: 'transactions' is left out of block_data, which keeps the merkle_root
compute_hash_header(block, txs) ==
    Sha256(<<block.index, block.merkle_root, block.nonce, block.previous_hash,
             block.timestamp, <<>> >>)

\* block.compute_hash(), txs being the present content of block.transactions
compute_hash(block, txs) ==
    Sha256(<<block.index, block.merkle_root, block.nonce, block.previous_hash,
             block.timestamp, JsonTxs(txs)>>)

\* Block.__init__ up to the merkle root: ref names the list object passed as
\* transactions, txs is its content
BlockFields(index, ref, txs, previous_hash, now) ==
    [index |-> index, transactions |-> ref, previous_hash |-> previous_hash,
     timestamp |-> now, nonce |-> 0, merkle_root |-> compute_merkle_root(txs),
     hash |-> NoneVal]

\* mutant: the blocks are numbered from 1
NewBlockOneBased(index, ref, txs, previous_hash, now) ==
    LET b == BlockFields(index + 1, ref, txs, previous_hash, now)
    IN [b EXCEPT !.hash = compute_hash(b, txs)]

\* Block(index, transactions, previous_hash)
NewBlock(index, ref, txs, previous_hash, now) ==
    LET b == BlockFields(index, ref, txs, previous_hash, now)
    IN [b EXCEPT !.hash = compute_hash(b, txs)]

(***************************************************************************)
(* class Blockchain: the functions computed by its methods                 *)
(***************************************************************************)
\* the search of proof_of_work from nonce n on, txs being the content of
\* block.transactions: the nonce the loop stops at, or -1 when it never stops
\* (HexDigest has period HashSpace in the nonce, so a search that fails for
\* HashSpace successive nonces fails for ever)
\* mutant: the loop is left after its first test
PowSearchFirst(block, txs, d, n) == n

RECURSIVE PowSearch(_, _, _, _)
PowSearch(block, txs, d, n) ==
    IF StartsWithZeros(compute_hash([block EXCEPT !.nonce = n], txs), d) THEN n
    ELSE IF n + 1 >= HashSpace THEN -1
    ELSE PowSearch(block, txs, d, n + 1)

\* mutant: block.nonce = 1 in the place of block.nonce = 0
proof_of_work_from_one(block, txs, d) ==
    LET n == PowSearch(block, txs, d, 1)
        b == [block EXCEPT !.nonce = n]
    IN [found |-> n >= 0, block |-> b, computed_hash |-> compute_hash(b, txs)]

\* proof_of_work(block) run to its end: the block with its final nonce and the hash returned
proof_of_work(block, txs, d) ==
    LET n == PowSearch(block, txs, d, 0)
        b == [block EXCEPT !.nonce = n]
    IN [found |-> n >= 0, block |-> b, computed_hash |-> compute_hash(b, txs)]

\* mutant: the link to the previous block is tested before the hash
RECURSIVE ValidateFromLinkFirst(_, _, _, _)
ValidateFromLinkFirst(ch, ls, d, i) ==
    IF i >= Len(ch) THEN [ret |-> TRUE, printed |-> NoneVal]
    ELSE LET curr == ch[i + 1]
             prev == ch[i]
         IN IF curr.previous_hash # prev.hash
            THEN [ret |-> FALSE, printed |-> <<i, "previous_hash incorrect">>]
            ELSE IF curr.hash # compute_hash(curr, ls[curr.transactions])
            THEN [ret |-> FALSE, printed |-> <<i, "hash incorrect">>]
            ELSE IF ~StartsWithZeros(curr.hash, d)
            THEN [ret |-> FALSE, printed |-> <<i, "proof of work incorrecte">>]
            ELSE ValidateFromLinkFirst(ch, ls, d, i + 1)

\* is_chain_valid from block i on (Python chain[i] is ch[i + 1]); printed is
\* the message print() writes: the index and the check that failed
RECURSIVE ValidateFrom(_, _, _, _)
ValidateFrom(ch, ls, d, i) ==
    IF i >= Len(ch) THEN [ret |-> TRUE, printed |-> NoneVal]
    ELSE LET curr == ch[i + 1]
             prev == ch[i]
         IN IF curr.hash # compute_hash(curr, ls[curr.transactions])
            THEN [ret |-> FALSE, printed |-> <<i, "hash incorrect">>]
            ELSE IF curr.previous_hash # prev.hash
            THEN [ret |-> FALSE, printed |-> <<i, "previous_hash incorrect">>]
            ELSE IF ~StartsWithZeros(curr.hash, d)
            THEN [ret |-> FALSE, printed |-> <<i, "proof of work incorrecte">>]
            ELSE ValidateFrom(ch, ls, d, i + 1)

\* mutant: the proof of work of the genesis block is tested too
is_chain_valid_genesis_checked(ch, ls, d) ==
    IF ~StartsWithZeros(ch[1].hash, d)
    THEN [ret |-> FALSE, printed |-> <<0, "proof of work incorrecte">>]
    ELSE ValidateFrom(ch, ls, d, 1)

is_chain_valid(ch, ls, d) == ValidateFrom(ch, ls, d, 1)

\* the loop of get_balance over the transactions of one block
RECURSIVE BlockBalance(_, _)
BlockBalance(txs, address) ==
    IF txs = <<>> THEN 0
    ELSE LET tx == txs[Len(txs)]
         IN BlockBalance(SubSeq(txs, 1, Len(txs) - 1), address)
              - (IF tx.sender = address THEN tx.amount ELSE 0)
              + (IF tx.recipient = address THEN tx.amount ELSE 0)

\* mutant: the transactions of the mempool are not looked at
PendingDebitNone(txs, address) == 0

\* the loop of get_balance over the mempool
RECURSIVE PendingDebit(_, _)
PendingDebit(txs, address) ==
    IF txs = <<>> THEN 0
    ELSE LET tx == txs[Len(txs)]
         IN PendingDebit(SubSeq(txs, 1, Len(txs) - 1), address)
              + (IF tx.sender = address THEN tx.amount ELSE 0)

RECURSIVE ChainBalance(_, _, _)
ChainBalance(ch, ls, address) ==
    IF ch = <<>> THEN 0
    ELSE ChainBalance(SubSeq(ch, 1, Len(ch) - 1), ls, address)
           + BlockBalance(ls[ch[Len(ch)].transactions], address)

\* mutant: the transactions of the mempool are counted like those of a block
get_balance_symmetric(ch, ls, mp, address) ==
    ChainBalance(ch, ls, address) + BlockBalance(ls[mp], address)

get_balance(ch, ls, mp, address) ==
    ChainBalance(ch, ls, address) - PendingDebit(ls[mp], address)

(***************************************************************************)
(* Construction                                                            *)
(***************************************************************************)
\* the list objects of a fresh Blockchain: initial_transactions and self.mempool = []
\* mutant: miner1 is granted as much as the others
GenesisTransactionsEqual(now) ==
    << create_transaction("network", "Alice", GenesisGrant, now),
       create_transaction("network", "Bob", GenesisGrant, now),
       create_transaction("network", "Charlie", GenesisGrant, now),
       create_transaction("network", "miner1", GenesisGrant, now) >>

GenesisTransactions(now) ==
    << create_transaction("network", "Alice", GenesisGrant, now),
       create_transaction("network", "Bob", GenesisGrant, now),
       create_transaction("network", "Charlie", GenesisGrant, now),
       create_transaction("network", "miner1", GenesisMinerGrant, now) >>

create_genesis_block(now) == NewBlock(0, 1, GenesisTransactions(now), ZeroHash, now)

Threads == {1, 2, 3}

NoLocals == [miner_address |-> NoneVal, reward_tx |-> NoneVal, new_block |-> NoneVal,
             computed_hash |-> NoneVal]

\* Blockchain(difficulty) at time 1, no request being handled
Construct(d) ==
    /\ lists = << GenesisTransactions(1), <<>> >>
    /\ chain = << create_genesis_block(1) >>
    /\ mempool = 2
    /\ difficulty = d
    /\ clock = 1
    /\ pc = [t \in Threads |-> "idle"]
    /\ loc = [t \in Threads |-> NoLocals]
    /\ result = [op |-> "init", ret |-> NoneVal]
    /\ submitted = EmptyBag
    /\ tampers = 0

Init == \E d \in 0..MaxDifficulty : Construct(d)

\* time.time() moves on
Tick ==
    /\ clock < MaxClock
    /\ clock' = clock + 1
    /\ UNCHANGED <<lists, chain, mempool, difficulty, pc, loc, result, submitted, tampers>>

AllIdle == \A t \in Threads : pc[t] = "idle"

Inputs == { create_transaction(x[1], x[2], x[3], now) : x \in Transfers, now \in 1..MaxClock }

(***************************************************************************)
(* The methods called one at a time                                        *)
(***************************************************************************)
\* mutant: a transaction the sender cannot pay is refused
AddTransactionChecked(tx) ==
    /\ AllIdle
    /\ Len(lists[mempool]) < MaxMempool
    /\ IF get_balance(chain, lists, mempool, tx.sender) >= tx.amount
       THEN /\ lists' = [lists EXCEPT ![mempool] = Append(@, tx)]
            /\ result' = [op |-> "add_transaction", ret |-> PyBool(TRUE)]
            /\ submitted' = submitted (+) SetToBag({tx})
       ELSE /\ result' = [op |-> "add_transaction", ret |-> PyBool(FALSE)]
            /\ UNCHANGED <<lists, submitted, tampers>>
    /\ UNCHANGED <<chain, mempool, difficulty, clock, pc, loc, tampers>>

\* self.mempool.append(transaction); return True
AddTransaction(tx) ==
    /\ AllIdle
    /\ Len(lists[mempool]) < MaxMempool
    /\ lists' = [lists EXCEPT ![mempool] = Append(@, tx)]
    /\ result' = [op |-> "add_transaction", ret |-> PyBool(TRUE)]
    /\ submitted' = submitted (+) SetToBag({tx})
    /\ UNCHANGED <<chain, mempool, difficulty, clock, pc, loc, tampers>>

\* mutant: `is None` in the place of `not`
NotMempoolIsNone(txs) == FALSE

\* not self.mempool
NotMempool(txs) == txs = <<>>

\* mutant: self.chain.insert(0, new_block) in the place of self.chain.append(new_block)
MineBlockInsertFirst(miner) ==
    /\ AllIdle
    /\ IF NotMempool(lists[mempool])
       THEN /\ result' = [op |-> "mine_block", ret |-> NoneVal]
            /\ UNCHANGED <<lists, chain, mempool, pc, loc>>
       ELSE /\ Len(chain) < MaxChain
            /\ LET reward_tx == create_transaction("network", miner, MiningReward, clock)
                   txs == Append(lists[mempool], reward_tx)
                   new_block == NewBlock(Len(chain), mempool, txs, chain[Len(chain)].hash, clock)
                   pow == proof_of_work(new_block, txs, difficulty)
                   sealed == [pow.block EXCEPT !.hash = pow.computed_hash]
               IN IF pow.found
                  THEN /\ lists' = Append([lists EXCEPT ![mempool] = txs], <<>>)
                       /\ chain' = <<sealed>> \o chain
                       /\ mempool' = Len(lists) + 1
                       /\ result' = [op |-> "mine_block", ret |-> PyBlock(sealed)]
                       /\ UNCHANGED <<pc, loc>>
                  ELSE /\ lists' = [lists EXCEPT ![mempool] = txs]
                       /\ pc' = [pc EXCEPT ![1] = "pow_forever"]
                       /\ loc' = [loc EXCEPT ![1] = [miner_address |-> miner,
                                                      reward_tx |-> reward_tx,
                                                      new_block |-> new_block,
                                                      computed_hash |-> NoneVal]]
                       /\ UNCHANGED <<chain, mempool, result>>
    /\ UNCHANGED <<difficulty, clock, submitted, tampers>>

\* mine_block(miner_address), from the call to the return or, when the loop
\* of proof_of_work never ends, to that loop
MineBlock(miner) ==
    /\ AllIdle
    /\ IF NotMempool(lists[mempool])
       THEN /\ result' = [op |-> "mine_block", ret |-> NoneVal]
            /\ UNCHANGED <<lists, chain, mempool, pc, loc>>
       ELSE /\ Len(chain) < MaxChain
            /\ LET reward_tx == create_transaction("network", miner, MiningReward, clock)
                   txs == Append(lists[mempool], reward_tx)
                   new_block == NewBlock(Len(chain), mempool, txs, chain[Len(chain)].hash, clock)
                   pow == proof_of_work(new_block, txs, difficulty)
                   sealed == [pow.block EXCEPT !.hash = pow.computed_hash]
               IN IF pow.found
                  THEN /\ lists' = Append([lists EXCEPT ![mempool] = txs], <<>>)
                       /\ chain' = Append(chain, sealed)
                       /\ mempool' = Len(lists) + 1
                       /\ result' = [op |-> "mine_block", ret |-> PyBlock(sealed)]
                       /\ UNCHANGED <<pc, loc>>
                  ELSE /\ lists' = [lists EXCEPT ![mempool] = txs]
                       /\ pc' = [pc EXCEPT ![1] = "pow_forever"]
                       /\ loc' = [loc EXCEPT ![1] = [miner_address |-> miner,
                                                      reward_tx |-> reward_tx,
                                                      new_block |-> new_block,
                                                      computed_hash |-> NoneVal]]
                       /\ UNCHANGED <<chain, mempool, result>>
    /\ UNCHANGED <<difficulty, clock, submitted, tampers>>

\* is_chain_valid()
IsChainValid ==
    /\ AllIdle
    /\ LET v == is_chain_valid(chain, lists, difficulty)
       IN result' = [op |-> "is_chain_valid", ret |-> PyBool(v.ret), printed |-> v.printed]
    /\ UNCHANGED <<lists, chain, mempool, difficulty, clock, pc, loc, submitted, tampers>>

\* mutant: the loop over the mempool takes the transactions out with pop()
GetBalancePopping(address) ==
    /\ AllIdle
    /\ result' = [op |-> "get_balance", address |-> address,
                  ret |-> PyNum(get_balance(chain, lists, mempool, address))]
    /\ lists' = [lists EXCEPT ![mempool] = <<>>]
    /\ UNCHANGED <<chain, mempool, difficulty, clock, pc, loc, submitted, tampers>>

\* get_balance(address)
GetBalance(address) ==
    /\ AllIdle
    /\ result' = [op |-> "get_balance", address |-> address,
                  ret |-> PyNum(get_balance(chain, lists, mempool, address))]
    /\ UNCHANGED <<lists, chain, mempool, difficulty, clock, pc, loc, submitted, tampers>>

\* add_transaction and mine_block called one at a time
Mutate ==
    \/ Tick
    \/ \E tx \in Inputs : tx.timestamp = clock /\ AddTransaction(tx)
    \/ \E miner \in Miners : MineBlock(miner)

Query ==
    \/ IsChainValid
    \/ \E address \in Addresses : GetBalance(address)

Next == Mutate \/ Query

\* every method, called one at a time
Spec == Init /\ [][Next]_vars

\* the methods that change the ledger, called one at a time
SpecMutate == Init /\ [][Mutate]_vars

(***************************************************************************)
(* Properties of the methods called one at a time                          *)
(***************************************************************************)
\* the transactions of block i (chain[i], Python chain[i - 1])
BlockTxs(i) == lists[chain[i].transactions]

IsReward(tx, miner) ==
    tx.sender = "network" /\ tx.recipient = miner /\ tx.amount = MiningReward

C1_Post(miner) ==
    LET L == Len(chain)
        M == lists[mempool]
        B == result'.ret[2]
    IN /\ result'.op = "mine_block"
       /\ result'.ret # NoneVal
       /\ B.index = L
       /\ B.previous_hash = chain[L].hash
       /\ Len(lists'[B.transactions]) = Len(M) + 1
       /\ SubSeq(lists'[B.transactions], 1, Len(M)) = M
       /\ IsReward(lists'[B.transactions][Len(M) + 1], miner)
       /\ Len(chain') = L + 1
       /\ chain'[L + 1] = B
       /\ \A i \in 1..L : /\ chain'[i] = chain[i]
                          /\ lists'[chain'[i].transactions] = lists[chain[i].transactions]
       /\ lists'[mempool'] = <<>>

\* C1: a mine_block(miner) that is called with the mempool M non-empty on a
\* chain of length L and returns, returns a block B with index L, previous_hash
\* the hash of the old tail and transactions M followed by the one reward
\* {network, miner, 10}; the chain is then the old chain, unchanged, followed by
\* B, and the mempool is empty.
C1_MineBlockAppends ==
    [][\A miner \in Miners :
          (MineBlock(miner) /\ lists[mempool] # <<>> /\ pc'[1] = "idle") => C1_Post(miner)]_vars

C1_Witness ==
    /\ result.op = "mine_block"
    /\ result.ret # NoneVal
    /\ Len(chain) = 3
    /\ Len(BlockTxs(3)) = 3
    /\ difficulty = 1

\* C2: in every state reached by add_transaction and mine_block called one at
\* a time, is_chain_valid() is true: every block after the genesis block has
\* the hash compute_hash gives, the previous_hash of its predecessor's hash and
\* a hash that starts with `difficulty` zeros.
C2_ChainValid ==
    /\ is_chain_valid(chain, lists, difficulty).ret
    /\ \A i \in 2..Len(chain) :
          /\ chain[i].hash = compute_hash(chain[i], BlockTxs(i))
          /\ chain[i].previous_hash = chain[i - 1].hash
          /\ StartsWithZeros(chain[i].hash, difficulty)

C2_Witness ==
    /\ Len(chain) = 3
    /\ difficulty = 1
    /\ chain[2].nonce > 0
    /\ chain[3].nonce > 0

\* the places <<i, j>> of the transactions of the chain
ChainPlaces == { p \in (1..Len(chain)) \X (1..(MaxMempool + 4)) : p[2] <= Len(BlockTxs(p[1])) }

RECURSIVE SumAmounts(_, _)
SumAmounts(txs, S) ==
    IF S = {} THEN 0
    ELSE LET k == CHOOSE k \in S : TRUE
         IN txs[k].amount + SumAmounts(txs, S \ {k})

RECURSIVE SumPlaces(_)
SumPlaces(S) ==
    IF S = {} THEN 0
    ELSE LET p == CHOOSE p \in S : TRUE
         IN BlockTxs(p[1])[p[2]].amount + SumPlaces(S \ {p})

Credited(a) == SumPlaces({ p \in ChainPlaces : BlockTxs(p[1])[p[2]].recipient = a })
Debited(a) == SumPlaces({ p \in ChainPlaces : BlockTxs(p[1])[p[2]].sender = a })
PendingDebited(a) ==
    SumAmounts(lists[mempool], { k \in 1..Len(lists[mempool]) : lists[mempool][k].sender = a })

Balance(a) == get_balance(chain, lists, mempool, a)

\* C7: get_balance(a) is the amounts the chain credits to a, less the amounts
\* the chain debits from a, less the amounts the mempool debits from a; what
\* the mempool credits to a counts for nothing.  Submitting a transfer of x
\* from A to B lowers get_balance(A) by x and leaves get_balance(B) as it was.
C7_BalanceFormula ==
    /\ [](\A a \in Addresses : Balance(a) = Credited(a) - Debited(a) - PendingDebited(a))
    /\ [][\A tx \in Inputs :
            (AddTransaction(tx) /\ tx.sender # tx.recipient) =>
                /\ get_balance(chain', lists', mempool', tx.sender) = Balance(tx.sender) - tx.amount
                /\ get_balance(chain', lists', mempool', tx.recipient) = Balance(tx.recipient)]_vars

C7_Witness ==
    /\ Len(chain) = 2
    /\ Len(lists[mempool]) = 2
    /\ lists[mempool][1].sender = "Alice"
    /\ lists[mempool][2].sender = "Bob"
    /\ Balance("Alice") = GenesisGrant - 30 - 30
    /\ Balance("Bob") = GenesisGrant + 30 - 2000

\* C8: mine_block on an empty mempool returns None and changes neither the
\* chain nor the mempool: no block is appended, no reward is made or queued.
C8_MineEmptyMempool ==
    [][\A miner \in Miners :
          (MineBlock(miner) /\ lists[mempool] = <<>>) =>
              /\ result'.op = "mine_block"
              /\ result'.ret = NoneVal
              /\ chain' = chain
              /\ mempool' = mempool
              /\ lists' = lists
              /\ pc' = pc]_vars

C8_Witness ==
    /\ result.op = "mine_block"
    /\ result.ret = NoneVal
    /\ Len(chain) = 2
    /\ lists[mempool] = <<>>

\* C9: add_transaction(tx) returns True for every tx, whatever the sender's
\* balance: tx becomes the last element of the mempool, the elements before it
\* stay as they were, and the chain is unchanged.
C9_AddNeverRejects ==
    [][\A tx \in Inputs :
          AddTransaction(tx) =>
              /\ result'.op = "add_transaction"
              /\ result'.ret = PyBool(TRUE)
              /\ mempool' = mempool
              /\ lists'[mempool] = Append(lists[mempool], tx)
              /\ chain' = chain
              /\ \A i \in 1..Len(chain) : lists'[chain[i].transactions] = BlockTxs(i)]_vars

\* a transfer of more than the sender owns has been queued
C9_Witness ==
    /\ result.op = "add_transaction"
    /\ result.ret = PyBool(TRUE)
    /\ Len(lists[mempool]) = 2
    /\ lists[mempool][2].sender = "Bob"
    /\ lists[mempool][2].amount > ChainBalance(chain, lists, "Bob")
    /\ Balance("Bob") < 0

(***************************************************************************)
(* A holder of the Blockchain object assigns to a field of a block or of   *)
(* one of its transactions, as the tamper tests of the specification do,   *)
(* and is_chain_valid is then called.                                      *)
(***************************************************************************)
\* assignments made in all
MaxTampers == 2

\* the values a tampered field of a transaction takes
OtherValue(field, v) ==
    CASE field = "sender" -> IF v = "Bob" THEN "Alice" ELSE "Bob"
      [] field = "recipient" -> IF v = "Bob" THEN "Alice" ELSE "Bob"
      [] field = "amount" -> v + 1
      [] OTHER -> v + 1

CanTamper(i) ==
    /\ AllIdle
    /\ tampers < MaxTampers
    /\ lists[mempool] = <<>>
    /\ i \in 1..Len(chain)

\* chain[i - 1].previous_hash = another hash
TamperPreviousHash(i) ==
    /\ CanTamper(i)
    /\ chain' = [chain EXCEPT ![i].previous_hash =
                    IF @ = ZeroHash THEN chain[1].hash ELSE ZeroHash]
    /\ tampers' = tampers + 1
    /\ UNCHANGED <<lists, mempool, difficulty, clock, pc, loc, result, submitted>>

\* chain[i - 1].nonce += 1
TamperNonce(i) ==
    /\ CanTamper(i)
    /\ chain' = [chain EXCEPT ![i].nonce = @ + 1]
    /\ tampers' = tampers + 1
    /\ UNCHANGED <<lists, mempool, difficulty, clock, pc, loc, result, submitted>>

\* chain[i - 1].hash = chain[i - 1].compute_hash()
TamperHash(i) ==
    /\ CanTamper(i)
    /\ chain[i].hash # compute_hash(chain[i], lists[chain[i].transactions])
    /\ chain' = [chain EXCEPT ![i].hash = compute_hash(chain[i], lists[chain[i].transactions])]
    /\ tampers' = tampers + 1
    /\ UNCHANGED <<lists, mempool, difficulty, clock, pc, loc, result, submitted>>

\* chain[i - 1].transactions[0][field] = another value
TamperTransaction(i, field) ==
    /\ CanTamper(i)
    /\ lists' = [lists EXCEPT ![chain[i].transactions][1][field] = OtherValue(field, @)]
    /\ tampers' = tampers + 1
    /\ UNCHANGED <<chain, mempool, difficulty, clock, pc, loc, result, submitted>>

Tamper ==
    \/ \E i \in 1..MaxChain : TamperPreviousHash(i)
    \/ \E i \in 1..MaxChain : TamperNonce(i)
    \/ \E i \in 1..MaxChain : TamperHash(i)
    \/ \E i \in 1..MaxChain, field \in {"sender", "recipient", "amount", "timestamp"} :
          TamperTransaction(i, field)

\* chain[i - 1].transactions[k - 1][field] = another value
TamperTransactionAt(i, k, field) ==
    /\ CanTamper(i)
    /\ k \in 1..Len(lists[chain[i].transactions])
    /\ lists' = [lists EXCEPT ![chain[i].transactions][k][field] = OtherValue(field, @)]
    /\ tampers' = tampers + 1
    /\ UNCHANGED <<chain, mempool, difficulty, clock, pc, loc, result, submitted>>

TxFields == {"sender", "recipient", "amount", "timestamp"}

\* one assignment to a field of a block that the block's hash covers
TamperOnce ==
    /\ tampers = 0
    /\ \/ \E i \in 1..MaxChain : TamperPreviousHash(i)
       \/ \E i \in 1..MaxChain : TamperNonce(i)
       \/ \E i \in 1..MaxChain, k \in 1..(MaxMempool + 4), field \in TxFields :
             TamperTransactionAt(i, k, field)

NextTamperOnce ==
    \/ \E tx \in Inputs : tx.timestamp = clock /\ tampers = 0 /\ AddTransaction(tx)
    \/ \E miner \in Miners : tampers = 0 /\ MineBlock(miner)
    \/ TamperOnce
    \/ IsChainValid

\* a chain is built, one field of it is assigned to, is_chain_valid is called
SpecTamperOnce == Init /\ [][NextTamperOnce]_vars

NextTamper ==
    \/ \E tx \in Inputs : tx.timestamp = clock /\ tampers = 0 /\ AddTransaction(tx)
    \/ \E miner \in Miners : tampers = 0 /\ MineBlock(miner)
    \/ Tamper
    \/ IsChainValid

\* a chain is built, fields of it are assigned to, is_chain_valid is called
SpecTamper == Init /\ [][NextTamper]_vars

(***************************************************************************)
(* The methods called from request threads: app.run serves each request in *)
(* a thread of its own and the Blockchain holds no lock, so the statements *)
(* of one call interleave with those of the others.  pc[t] is the line     *)
(* thread t is about to execute, loc[t] its local variables.               *)
(***************************************************************************)
\* calls of add_transaction in all
MaxSubmitted == 2

\* nonces one search tries: the content of the list changes at most
\* MaxSubmitted times, and unchanged content meets a reachable target within
\* HashSpace nonces
NonceCap == HashSpace * (MaxSubmitted + 1)

Mining == { t \in Threads : pc[t] # "idle" }

\* blockchain.add_transaction(tx) in a request thread: line 68 is one statement
Submit(tx) ==
    /\ BagCardinality(submitted) < MaxSubmitted
    /\ lists' = [lists EXCEPT ![mempool] = Append(@, tx)]
    /\ result' = [op |-> "add_transaction", ret |-> PyBool(TRUE)]
    /\ submitted' = submitted (+) SetToBag({tx})
    /\ UNCHANGED <<chain, mempool, difficulty, clock, pc, loc, tampers>>

\* blockchain.get_balance(address) in a request thread
ReadBalance(address) ==
    /\ result' = [op |-> "get_balance", address |-> address,
                  ret |-> PyNum(get_balance(chain, lists, mempool, address))]
    /\ UNCHANGED <<lists, chain, mempool, difficulty, clock, pc, loc, submitted, tampers>>

\* blockchain.mine_block(miner_address) is called in thread t
CallMine(t, miner) ==
    /\ pc[t] = "idle"
    /\ Len(chain) + Cardinality(Mining) < MaxChain
    /\ pc' = [pc EXCEPT ![t] = "m80"]
    /\ loc' = [loc EXCEPT ![t].miner_address = miner]
    /\ UNCHANGED <<lists, chain, mempool, difficulty, clock, result, submitted, tampers>>

\* line 80-81: if not self.mempool: return None
M80(t) ==
    /\ pc[t] = "m80"
    /\ IF NotMempool(lists[mempool])
       THEN /\ pc' = [pc EXCEPT ![t] = "idle"]
            /\ loc' = [loc EXCEPT ![t] = NoLocals]
            /\ result' = [op |-> "mine_block", ret |-> NoneVal]
       ELSE /\ pc' = [pc EXCEPT ![t] = "m84"]
            /\ UNCHANGED <<loc, result>>
    /\ UNCHANGED <<lists, chain, mempool, difficulty, clock, submitted, tampers>>

\* line 84: reward_tx = create_transaction("network", miner_address, 10)
M84(t) ==
    /\ pc[t] = "m84"
    /\ loc' = [loc EXCEPT ![t].reward_tx =
                  create_transaction("network", loc[t].miner_address, MiningReward, clock)]
    /\ pc' = [pc EXCEPT ![t] = "m85"]
    /\ UNCHANGED <<lists, chain, mempool, difficulty, clock, result, submitted, tampers>>

\* line 85: self.mempool.append(reward_tx)
M85(t) ==
    /\ pc[t] = "m85"
    /\ lists' = [lists EXCEPT ![mempool] = Append(@, loc[t].reward_tx)]
    /\ pc' = [pc EXCEPT ![t] = "m87"]
    /\ UNCHANGED <<chain, mempool, difficulty, clock, loc, result, submitted, tampers>>

\* line 87, Block.__init__ lines 13-17: the new block refers to the list
\* object self.mempool refers to
M87(t) ==
    /\ pc[t] = "m87"
    /\ loc' = [loc EXCEPT ![t].new_block =
                  [index |-> Len(chain), transactions |-> mempool,
                   previous_hash |-> chain[Len(chain)].hash, timestamp |-> clock,
                   nonce |-> 0, merkle_root |-> NoneVal, hash |-> NoneVal]]
    /\ pc' = [pc EXCEPT ![t] = "b18"]
    /\ UNCHANGED <<lists, chain, mempool, difficulty, clock, result, submitted, tampers>>

\* Block.__init__ line 18: self.merkle_root = self.compute_merkle_root(transactions)
B18(t) ==
    /\ pc[t] = "b18"
    /\ loc' = [loc EXCEPT ![t].new_block.merkle_root =
                  compute_merkle_root(lists[loc[t].new_block.transactions])]
    /\ pc' = [pc EXCEPT ![t] = "b19"]
    /\ UNCHANGED <<lists, chain, mempool, difficulty, clock, result, submitted, tampers>>

\* Block.__init__ line 19: self.hash = self.compute_hash()
B19(t) ==
    /\ pc[t] = "b19"
    /\ loc' = [loc EXCEPT ![t].new_block.hash =
                  compute_hash(loc[t].new_block, lists[loc[t].new_block.transactions])]
    /\ pc' = [pc EXCEPT ![t] = "p72"]
    /\ UNCHANGED <<lists, chain, mempool, difficulty, clock, result, submitted, tampers>>

\* proof_of_work lines 72-73: block.nonce = 0; computed_hash = block.compute_hash()
P72(t) ==
    /\ pc[t] = "p72"
    /\ LET b == [loc[t].new_block EXCEPT !.nonce = 0]
       IN loc' = [loc EXCEPT ![t].new_block = b,
                             ![t].computed_hash = compute_hash(b, lists[b.transactions])]
    /\ pc' = [pc EXCEPT ![t] = "p74"]
    /\ UNCHANGED <<lists, chain, mempool, difficulty, clock, result, submitted, tampers>>

\* proof_of_work line 74, the test of the loop; when it ends, lines 77 and 88:
\* new_block.hash = the hash returned
P74(t) ==
    /\ pc[t] = "p74"
    /\ IF StartsWithZeros(loc[t].computed_hash, difficulty)
       THEN /\ loc' = [loc EXCEPT ![t].new_block.hash = loc[t].computed_hash]
            /\ pc' = [pc EXCEPT ![t] = "m90"]
       ELSE /\ pc' = [pc EXCEPT ![t] = "p75"]
            /\ UNCHANGED loc
    /\ UNCHANGED <<lists, chain, mempool, difficulty, clock, result, submitted, tampers>>

\* mutant: the loop gives up after its second nonce and the block is taken as it is
P75Capped(t) ==
    /\ pc[t] = "p75"
    /\ IF loc[t].new_block.nonce + 1 < 2
       THEN /\ LET b == [loc[t].new_block EXCEPT !.nonce = @ + 1]
               IN loc' = [loc EXCEPT ![t].new_block = b,
                                     ![t].computed_hash = compute_hash(b, lists[b.transactions])]
            /\ pc' = [pc EXCEPT ![t] = "p74"]
       ELSE /\ loc' = [loc EXCEPT ![t].new_block.hash = loc[t].computed_hash]
            /\ pc' = [pc EXCEPT ![t] = "m90"]
    /\ UNCHANGED <<lists, chain, mempool, difficulty, clock, result, submitted, tampers>>

\* proof_of_work lines 75-76: block.nonce += 1; computed_hash = block.compute_hash()
P75(t) ==
    /\ pc[t] = "p75"
    /\ loc[t].new_block.nonce + 1 < NonceCap
    /\ LET b == [loc[t].new_block EXCEPT !.nonce = @ + 1]
       IN loc' = [loc EXCEPT ![t].new_block = b,
                             ![t].computed_hash = compute_hash(b, lists[b.transactions])]
    /\ pc' = [pc EXCEPT ![t] = "p74"]
    /\ UNCHANGED <<lists, chain, mempool, difficulty, clock, result, submitted, tampers>>

\* line 90: self.chain.append(new_block)
M90(t) ==
    /\ pc[t] = "m90"
    /\ chain' = Append(chain, loc[t].new_block)
    /\ pc' = [pc EXCEPT ![t] = "m91"]
    /\ UNCHANGED <<lists, mempool, difficulty, clock, loc, result, submitted, tampers>>

\* mutant: self.mempool.clear() in the place of self.mempool = []
M91Clear(t) ==
    /\ pc[t] = "m91"
    /\ lists' = [lists EXCEPT ![mempool] = <<>>]
    /\ result' = [op |-> "mine_block", ret |-> PyBlock(loc[t].new_block)]
    /\ pc' = [pc EXCEPT ![t] = "idle"]
    /\ loc' = [loc EXCEPT ![t] = NoLocals]
    /\ UNCHANGED <<chain, mempool, difficulty, clock, submitted, tampers>>

\* lines 91-94: self.mempool = [] (a new list object); return new_block
M91(t) ==
    /\ pc[t] = "m91"
    /\ lists' = Append(lists, <<>>)
    /\ mempool' = Len(lists) + 1
    /\ result' = [op |-> "mine_block", ret |-> PyBlock(loc[t].new_block)]
    /\ pc' = [pc EXCEPT ![t] = "idle"]
    /\ loc' = [loc EXCEPT ![t] = NoLocals]
    /\ UNCHANGED <<chain, difficulty, clock, submitted, tampers>>

\* one statement of mine_block in thread t
MineStep(t) ==
    \/ \E miner \in Miners : CallMine(t, miner)
    \/ M80(t)
    \/ M84(t)
    \/ M85(t)
    \/ M87(t)
    \/ B18(t)
    \/ B19(t)
    \/ P72(t)
    \/ P74(t)
    \/ P75(t)
    \/ M90(t)
    \/ M91(t)

Submissions == \E tx \in Inputs : tx.timestamp = clock /\ Submit(tx)

Reads == \E address \in Addresses : ReadBalance(address)

NextOneMiner == Tick \/ Submissions \/ Reads \/ MineStep(1)

NextTwoMiners ==
    \/ Tick
    \/ \E tx \in Inputs : tx.timestamp = clock /\ AddTransaction(tx)
    \/ \E t \in {1, 2} : MineStep(t)

\* a Blockchain whose difficulty a hash can meet
InitMineable == \E d \in 0..HexLen : d <= MaxDifficulty /\ Construct(d)

\* mine_block runs statement by statement in thread 1, which keeps running;
\* add_transaction is called while it is not mining
NextPow ==
    \/ \E tx \in Inputs : tx.timestamp = clock /\ AddTransaction(tx)
    \/ MineStep(1)

SpecPow == Init /\ [][NextPow]_vars /\ WF_vars(MineStep(1))

\* one thread in mine_block, the others in add_transaction and get_balance
SpecOneMiner == InitMineable /\ [][NextOneMiner]_vars

\* two threads in mine_block; add_transaction is called while none is mining
SpecTwoMiners == InitMineable /\ [][NextTwoMiners]_vars

(***************************************************************************)
(* Properties of the methods called from concurrent request threads        *)
(***************************************************************************)
RECURSIVE Occurrences(_, _)
Occurrences(tx, txs) ==
    IF txs = <<>> THEN 0
    ELSE (IF txs[Len(txs)] = tx THEN 1 ELSE 0) + Occurrences(tx, SubSeq(txs, 1, Len(txs) - 1))

RECURSIVE OccurrencesInBlocks(_, _)
OccurrencesInBlocks(tx, n) ==
    IF n = 0 THEN 0 ELSE Occurrences(tx, BlockTxs(n)) + OccurrencesInBlocks(tx, n - 1)

\* how often tx occurs in the transaction lists of the blocks and in the mempool
Held(tx) == OccurrencesInBlocks(tx, Len(chain)) + Occurrences(tx, lists[mempool])

\* C3: whatever the interleaving of add_transaction calls with a mine_block
\* call, once mine_block has returned every transaction passed to
\* add_transaction occurs as often as it was passed (once per call) in the
\* blocks' transaction lists and the mempool together: none lost, none doubled.
C3_NoSubmissionLost ==
    pc[1] = "idle" => \A tx \in Inputs : Held(tx) = CopiesIn(tx, submitted)

\* mine_block has returned a block that a transaction joined after the reward
C3_Witness ==
    /\ pc[1] = "idle"
    /\ Len(chain) = 2
    /\ BlockTxs(2)[Len(BlockTxs(2))] \in Inputs
    /\ BagCardinality(submitted) = MaxSubmitted
    /\ lists[mempool] = <<>>

\* C4: whatever the interleaving of add_transaction calls with a mine_block
\* call, every block of the chain has the Merkle root of its transactions and
\* the hash compute_hash gives for it.
C4_BlocksSealed ==
    \A i \in 1..Len(chain) :
        /\ chain[i].merkle_root = compute_merkle_root(BlockTxs(i))
        /\ chain[i].hash = compute_hash(chain[i], BlockTxs(i))

\* the list objects the blocks refer to are distinct
NoSharedList ==
    \A i, j \in 1..Len(chain) : i # j => chain[i].transactions # chain[j].transactions

\* C5: whatever the interleaving of two mine_block calls, once both have
\* returned no transaction is in two blocks, each block holds one reward, and
\* is_chain_valid() is true with every block linked to its predecessor.
C5_TwoMinersSafe ==
    AllIdle =>
        /\ NoSharedList
        /\ \A tx \in Inputs : OccurrencesInBlocks(tx, Len(chain)) <= CopiesIn(tx, submitted)
        /\ \A i \in 2..Len(chain) :
              Cardinality({ k \in 1..Len(BlockTxs(i)) : BlockTxs(i)[k].amount = MiningReward }) = 1
        /\ is_chain_valid(chain, lists, difficulty).ret
        /\ \A i \in 2..Len(chain) : chain[i].previous_hash = chain[i - 1].hash

\* get_balance(a) with every transaction counted once, wherever it is held
BalanceCountedOnce(a) ==
    IF \E i \in 1..Len(chain) : chain[i].transactions = mempool
    THEN ChainBalance(chain, lists, a)
    ELSE ChainBalance(chain, lists, a) - PendingDebit(lists[mempool], a)

\* C6: a read never sees a mine half done: in no state is a transaction both
\* in a block of the chain and in the mempool, and get_balance subtracts no
\* debit twice.
C6_NoPartialMine ==
    /\ \A i \in 1..Len(chain) : chain[i].transactions # mempool
    /\ \A a \in Addresses : get_balance(chain, lists, mempool, a) = BalanceCountedOnce(a)

(***************************************************************************)
(* Properties of is_chain_valid on chains that were tampered with          *)
(***************************************************************************)
\* check k of is_chain_valid on chain[i] (which is the block chain[i + 1] here)
CheckPasses(i, k) ==
    CASE k = 1 -> chain[i + 1].hash = compute_hash(chain[i + 1], BlockTxs(i + 1))
      [] k = 2 -> chain[i + 1].previous_hash = chain[i].hash
      [] OTHER -> StartsWithZeros(chain[i + 1].hash, difficulty)

CheckMessage(k) ==
    CASE k = 1 -> "hash incorrect"
      [] k = 2 -> "previous_hash incorrect"
      [] OTHER -> "proof of work incorrecte"

FailedChecks == { f \in (1..(Len(chain) - 1)) \X (1..3) : ~CheckPasses(f[1], f[2]) }

Earlier(f, g) == f[1] < g[1] \/ (f[1] = g[1] /\ f[2] <= g[2])

FirstFailedCheck == CHOOSE f \in FailedChecks : \A g \in FailedChecks : Earlier(f, g)

\* C10: is_chain_valid goes through the blocks 1..len-1 in order and tests,
\* for each, the hash, then the link to the previous block, then the proof of
\* work; it returns False at the first test that fails, having printed the
\* index and the test, and returns True only when every test of every block
\* passes.
C10_FirstFailureReported ==
    [][IsChainValid =>
          /\ result'.op = "is_chain_valid"
          /\ IF FailedChecks = {}
             THEN result'.ret = PyBool(TRUE) /\ result'.printed = NoneVal
             ELSE /\ result'.ret = PyBool(FALSE)
                  /\ result'.printed = <<FirstFailedCheck[1], CheckMessage(FirstFailedCheck[2])>>]_vars

\* the proof of work of block 1 is reported although block 2 fails too
C10_Witness ==
    /\ result.op = "is_chain_valid"
    /\ result.ret = PyBool(FALSE)
    /\ result.printed = <<1, "proof of work incorrecte">>
    /\ <<2, 2>> \in FailedChecks
    /\ FirstFailedCheck = <<1, 3>>

(***************************************************************************)
(* Properties of is_chain_valid after one assignment to a field            *)
(***************************************************************************)
Validity == is_chain_valid(chain, lists, difficulty)

ValidityAfter == is_chain_valid(chain', lists', difficulty')

\* a 3-block chain on which is_chain_valid() is true
ValidThreeBlocks == Len(chain) = 3 /\ Validity.ret

\* C11 as amended: on a valid 3-block chain, assigning to block 1's
\* previous_hash alone (its stored hash untouched) makes is_chain_valid return
\* False at index 1 on the hash test ("hash incorrect"): previous_hash is part
\* of the data compute_hash covers and the hash is tested before the link.
C11_UnlinkedFailsHashCheck ==
    [][(ValidThreeBlocks /\ TamperPreviousHash(2)) =>
          ValidityAfter = [ret |-> FALSE, printed |-> <<1, "hash incorrect">>]]_vars

\* C11 as stated: on a valid 3-block chain, assigning to block 1's
\* previous_hash alone makes is_chain_valid fail at index 1 on the link test
\* (previous_hash != chain[0].hash), not on the hash test.
C11_UnlinkedFailsLinkCheck ==
    [][(ValidThreeBlocks /\ TamperPreviousHash(2)) =>
          ValidityAfter = [ret |-> FALSE, printed |-> <<1, "previous_hash incorrect">>]]_vars

\* is_chain_valid was called on a 3-block chain whose block 1 differs from a
\* valid one by its previous_hash only
C11_Witness ==
    /\ Len(chain) = 3
    /\ tampers = 1
    /\ chain[2].previous_hash # chain[1].hash
    /\ chain[2].hash = compute_hash([chain[2] EXCEPT !.previous_hash = chain[1].hash], BlockTxs(2))
    /\ chain[3].previous_hash = chain[2].hash
    /\ result.op = "is_chain_valid"
    /\ result.ret = PyBool(FALSE)
    /\ result.printed = <<1, "hash incorrect">>

\* C12: on a valid chain of 3 blocks, assigning to one field (sender,
\* recipient, amount or timestamp) of any transaction of block 1, the block's
\* hash and merkle_root left as they were, makes is_chain_valid return False
\* with 1 as the index of the first block that fails.
C12_TamperedTransactionDetected ==
    [][\A k \in 1..(MaxMempool + 4), field \in TxFields :
          (ValidThreeBlocks /\ TamperTransactionAt(2, k, field)) =>
              /\ ValidityAfter.ret = FALSE
              /\ ValidityAfter.printed[1] = 1]_vars

\* is_chain_valid was called after the amount of the reward, the last
\* transaction of block 1, was raised
C12_Witness ==
    /\ Len(chain) = 3
    /\ tampers = 1
    /\ Len(BlockTxs(2)) = 3
    /\ BlockTxs(2)[3].amount = MiningReward + 1
    /\ chain[2].merkle_root # compute_merkle_root(BlockTxs(2))
    /\ result.op = "is_chain_valid"
    /\ result.ret = PyBool(FALSE)
    /\ result.printed[1] = 1

\* the chain with another block 0 that has the same stored hash
OtherGenesis ==
    [chain EXCEPT ![1] = [@ EXCEPT !.index = 7, !.nonce = @ + 1,
                                   !.previous_hash = chain[1].hash,
                                   !.timestamp = @ + 1, !.merkle_root = NoneVal,
                                   !.transactions = mempool]]

\* C13: is_chain_valid tests nothing of block 0: a chain of the genesis block
\* alone is valid whatever the difficulty and the genesis hash, assigning to
\* the previous_hash, the nonce or a transaction of block 0 changes nothing in
\* the result, and block 0 counts only by its stored hash, which block 1's
\* previous_hash is compared with.
C13_GenesisExempt ==
    /\ [](Len(chain) = 1 => Validity = [ret |-> TRUE, printed |-> NoneVal])
    /\ [](is_chain_valid(OtherGenesis, lists, difficulty) = Validity)
    /\ [][(\/ TamperPreviousHash(1)
           \/ TamperNonce(1)
           \/ \E k \in 1..4, field \in TxFields : TamperTransactionAt(1, k, field))
              => ValidityAfter = Validity]_vars

\* is_chain_valid returned True on the genesis block alone, whose hash does
\* not start with `difficulty` zeros and no longer is the hash of its content
C13_Witness ==
    /\ Len(chain) = 1
    /\ difficulty > 0
    /\ ~StartsWithZeros(chain[1].hash, difficulty)
    /\ chain[1].hash # compute_hash(chain[1], BlockTxs(1))
    /\ result.op = "is_chain_valid"
    /\ result.ret = PyBool(TRUE)

(***************************************************************************)
(* The history of the chain                                                *)
(***************************************************************************)
\* C14: the chain only grows at its end: over every step of add_transaction,
\* mine_block, get_balance and is_chain_valid the blocks there were stay where
\* they were with every field and every transaction as before, the length
\* does not go down and goes up by one in a mine_block only, the genesis block
\* stays at index 0 and the difficulty stays what the constructor set.
C14_AppendOnly ==
    /\ [](chain[1].index = 0 /\ chain[1].previous_hash = ZeroHash)
    /\ [][/\ Len(chain') \in {Len(chain), Len(chain) + 1}
          /\ \A i \in 1..Len(chain) :
                /\ chain'[i] = chain[i]
                /\ lists'[chain'[i].transactions] = BlockTxs(i)
          /\ Len(chain') = Len(chain) + 1 =>
                /\ \E miner \in Miners : MineBlock(miner)
                /\ chain'[Len(chain')].index = Len(chain)
          /\ difficulty' = difficulty]_vars

\* every method has been called on a chain that two mine_block calls extended
C14_Witness ==
    /\ Len(chain) = 3
    /\ chain[1] = create_genesis_block(1)
    /\ chain[3].index = 2
    /\ lists[mempool] # <<>>
    /\ result.op = "is_chain_valid"
    /\ difficulty = 1

(***************************************************************************)
(* Proof of work                                                           *)
(***************************************************************************)
\* block with its nonce set to n meets the target of the Blockchain
MeetsTarget(block, txs, n) ==
    StartsWithZeros(compute_hash([block EXCEPT !.nonce = n], txs), difficulty)

\* C15: the hash proof_of_work returns for a block is the hash of the block at
\* the least nonce n >= 0 whose hash starts with `difficulty` zeros: the hash
\* meets the target, block.nonce is n on return, and no nonce below n gives a
\* hash that meets the target.
C15_LeastNonce ==
    [][\A miner \in Miners :
          (MineBlock(miner) /\ lists[mempool] # <<>> /\ pc'[1] = "idle") =>
              LET B == result'.ret[2]
                  txs == lists'[B.transactions]
              IN /\ B.nonce >= 0
                 /\ B.hash = compute_hash(B, txs)
                 /\ StartsWithZeros(B.hash, difficulty)
                 /\ \A m \in 0..(B.nonce - 1) : ~MeetsTarget(B, txs, m)]_vars

\* mine_block returned a block that the search sealed at its third nonce or later
C15_Witness ==
    /\ result.op = "mine_block"
    /\ result.ret # NoneVal
    /\ result.ret[2].nonce >= 2
    /\ difficulty = 1
    /\ StartsWithZeros(result.ret[2].hash, 1)

\* thread 1 is in proof_of_work
InSearch == pc[1] \in {"p72", "p74", "p75"}

\* some nonce gives the block of thread 1 a hash that meets the target (the
\* digest has period HashSpace in the nonce)
SomeNonceMeets ==
    \E n \in 0..(HashSpace - 1) :
        MeetsTarget(loc[1].new_block, lists[loc[1].new_block.transactions], n)

\* C16: the search of proof_of_work ends if and only if some nonce >= 0 gives
\* the block a hash that meets the target; with difficulty 0 it ends at nonce 0
\* after one test; when no nonce meets the target it goes on for ever, no cap
\* and no timeout ending it, and mine_block neither appends a block nor
\* clears the mempool.
C16_SearchEndsIffReachable ==
    /\ (pc[1] = "p72" /\ SomeNonceMeets) ~> (pc[1] = "m90")
    /\ [][(InSearch /\ ~SomeNonceMeets) =>
              /\ pc'[1] \in {"p72", "p74", "p75"}
              /\ chain' = chain
              /\ mempool' = mempool
              /\ lists'[mempool] = lists[mempool]]_vars
    /\ [][(P74(1) /\ difficulty = 0) =>
              pc'[1] = "m90" /\ loc'[1].new_block.nonce = 0]_vars
    /\ [](pc[1] = "m90" =>
              /\ StartsWithZeros(loc[1].new_block.hash, difficulty)
              /\ SomeNonceMeets)

\* the search has gone through NonceCap nonces for a target no hash meets,
\* the chain and the mempool being as mine_block found them
C16_Witness ==
    /\ pc[1] = "p75"
    /\ loc[1].new_block.nonce = NonceCap - 1
    /\ difficulty > HexLen
    /\ ~SomeNonceMeets
    /\ Len(chain) = 1
    /\ lists[mempool] # <<>>

(***************************************************************************)
(* Block.compute_merkle_root on the lists a mempool can hold                *)
(***************************************************************************)
\* transactions of the lists compute_merkle_root is given
MaxLeaves == 4

\* the transfers submitted at time 1 and a reward
MerkleInputs ==
    { tx \in Inputs : tx.timestamp = 1 }
        \cup { create_transaction("network", "miner1", MiningReward, 1) }

TxLists == UNION { [1..n -> MerkleInputs] : n \in 0..MaxLeaves }

RECURSIVE SeqToBag(_)
SeqToBag(txs) ==
    IF txs = <<>> THEN EmptyBag
    ELSE SeqToBag(SubSeq(txs, 1, Len(txs) - 1)) (+) SetToBag({txs[Len(txs)]})

\* a Blockchain of difficulty 0 whose mempool holds txs
InitMerkle ==
    \E txs \in TxLists :
        /\ lists = << GenesisTransactions(1), txs >>
        /\ chain = << create_genesis_block(1) >>
        /\ mempool = 2
        /\ difficulty = 0
        /\ clock = 1
        /\ pc = [t \in Threads |-> "idle"]
        /\ loc = [t \in Threads |-> NoLocals]
        /\ result = [op |-> "init", ret |-> NoneVal]
        /\ submitted = SeqToBag(txs)
        /\ tampers = 0

\* compute_merkle_root(self.mempool), as Block.__init__ calls it
ComputeMerkleRoot ==
    /\ result.op = "init"
    /\ result' = [op |-> "compute_merkle_root", ret |-> compute_merkle_root(lists[mempool])]
    /\ UNCHANGED <<lists, chain, mempool, difficulty, clock, pc, loc, submitted, tampers>>

SpecMerkle == InitMerkle /\ [][ComputeMerkleRoot]_vars

\* Hash(tx) of a transaction and Hash(x + y) of two hash strings
LeafHash(tx) == Sha256(JsonTx(tx))

PairHash(x, y) == Sha256(<<x, y>>)

\* C17: compute_merkle_root returns None for the empty list and the leaf hash
\* for one transaction; otherwise it hashes adjacent pairs level by level, the
\* last hash of an odd level being paired with itself: for [a, b, c] the root
\* is Hash(Hash(Hash(a)+Hash(b)) + Hash(Hash(c)+Hash(c))) and not the one
\* that carries Hash(c) up as it is.
C17_MerkleRoot ==
    result.op = "compute_merkle_root" =>
        LET txs == lists[mempool]
            h(i) == LeafHash(txs[i])
            root == result.ret
        IN CASE Len(txs) = 0 -> root = NoneVal
             [] Len(txs) = 1 -> root = h(1)
             [] Len(txs) = 2 -> root = PairHash(h(1), h(2))
             [] Len(txs) = 3 ->
                  /\ root = PairHash(PairHash(h(1), h(2)), PairHash(h(3), h(3)))
                  /\ root # PairHash(PairHash(h(1), h(2)), h(3))
             [] Len(txs) = 4 -> root = PairHash(PairHash(h(1), h(2)), PairHash(h(3), h(4)))
             [] Len(txs) = 5 ->
                  root = PairHash(PairHash(PairHash(h(1), h(2)), PairHash(h(3), h(4))),
                                  PairHash(PairHash(h(5), h(5)), PairHash(h(5), h(5))))
             [] OTHER -> FALSE

\* the root of three different transactions has been computed
C17_Witness ==
    /\ result.op = "compute_merkle_root"
    /\ Len(lists[mempool]) = 3
    /\ Cardinality({ lists[mempool][i] : i \in 1..3 }) = 3
    /\ result.ret[2][2] = PairHash(LeafHash(lists[mempool][3]), LeafHash(lists[mempool][3]))

\* the reorderings of txs
Reorderings(txs) ==
    { [i \in 1..Len(txs) |-> txs[f[i]]] :
        f \in { g \in [1..Len(txs) -> 1..Len(txs)] :
                   \A i, j \in 1..Len(txs) : g[i] = g[j] => i = j } }

\* C18: the Merkle root is a function of the list of transactions in its
\* order (compute_merkle_root reads nothing else), and the order counts: the
\* hash having no collisions, every reordering of a list of 2 or more that is
\* another sequence has another root.
C18_OrderSensitive ==
    result.op = "compute_merkle_root" =>
        LET txs == lists[mempool]
        IN Len(txs) >= 2 =>
              \A other \in Reorderings(txs) :
                  other # txs => compute_merkle_root(other) # result.ret

\* the root of a list that has the same transaction twice and another one
\* has been computed
C18_Witness ==
    /\ result.op = "compute_merkle_root"
    /\ Len(lists[mempool]) = 3
    /\ lists[mempool][1] = lists[mempool][3]
    /\ lists[mempool][1] # lists[mempool][2]
    /\ result.ret # NoneVal

(***************************************************************************)
(* generate_keys, sign_transaction, verify_transaction.  The ecdsa library *)
(* is modelled by what its calls do: sign gives one of several signatures  *)
(* of the bytes under the key, verify returns True for a signature of the  *)
(* same bytes under the matching key and raises BadSignatureError for any  *)
(* other bytes.                                                            *)
(***************************************************************************)
\* random values k one signing can draw
MaxEcdsaNonce == 2

PrivKeys == {"priv1", "priv2"}

\* priv.get_verifying_key()
PubOf(priv) == <<"VerifyingKey", priv>>

generate_keys(priv) == <<priv, PubOf(priv)>>

\* the outcome of a call: a value returned or an exception raised
Return(v) == [kind |-> "return", value |-> v]

Raise(exc) == [kind |-> "raise", exc |-> exc]

\* priv_key.sign(data): the signature bytes, k being the random value drawn
EcdsaSign(priv, data, k) == <<"sig", priv, data, k>>

\* b.hex() and bytes.fromhex(s)
Hex(b) == <<"hex", b>>

FromHex(s) == IF s[1] = "hex" THEN Return(s[2]) ELSE Raise("ValueError")

\* pub_key.verify(sig, data)
EcdsaVerify(pub, sig, data) ==
    IF pub = NoneVal THEN Raise("AttributeError")
    ELSE IF sig[1] = "sig" /\ PubOf(sig[2]) = pub /\ sig[3] = data
    THEN Return(PyBool(TRUE))
    ELSE Raise("BadSignatureError")

sign_transaction(transaction, priv_key, k) ==
    Hex(EcdsaSign(priv_key, JsonTx(transaction), k))

\* mutant: the call of verify without the try
verify_transaction_uncaught(transaction, signature, pub_key) ==
    LET tx_str == JsonTx(transaction)
        sig == FromHex(signature)
    IN IF pub_key = NoneVal THEN Raise("AttributeError")
       ELSE IF sig.kind = "raise" THEN sig
       ELSE EcdsaVerify(pub_key, sig.value, tx_str)

\* lines 153-157: the attribute pub_key.verify, then bytes.fromhex(signature),
\* then the call, all inside the try whose except returns False
verify_transaction(transaction, signature, pub_key) ==
    LET tx_str == JsonTx(transaction)
        sig == FromHex(signature)
        tried == IF pub_key = NoneVal THEN Raise("AttributeError")
                 ELSE IF sig.kind = "raise" THEN sig
                 ELSE EcdsaVerify(pub_key, sig.value, tx_str)
    IN IF tried.kind = "raise" THEN Return(PyBool(FALSE)) ELSE tried

\* the signature strings verify_transaction is given: signatures made by
\* sign_transaction, a string that is not hexadecimal, and the hexadecimal
\* form of bytes that are no signature
Signatures ==
    { sign_transaction(tx, priv, k) : tx \in Inputs, priv \in PrivKeys, k \in 1..MaxEcdsaNonce }
        \cup { <<"str", <<"zz">> >>, Hex(<<"bytes", "00">>) }

PubKeys == { PubOf(priv) : priv \in PrivKeys } \cup { NoneVal }

\* verify_transaction(transaction, signature, pub_key)
VerifyTransaction(transaction, signature, pub_key) ==
    /\ result' = [op |-> "verify_transaction", transaction |-> transaction,
                  signature |-> signature, pub_key |-> pub_key,
                  outcome |-> verify_transaction(transaction, signature, pub_key)]
    /\ UNCHANGED <<lists, chain, mempool, difficulty, clock, pc, loc, submitted, tampers>>

NextVerify ==
    \E transaction \in Inputs, signature \in Signatures, pub_key \in PubKeys :
        VerifyTransaction(transaction, signature, pub_key)

SpecVerify == Init /\ [][NextVerify]_vars

\* signature was made by sign_transaction over transaction with the key of pub_key
SignedBy(transaction, signature, pub_key) ==
    \E priv \in PrivKeys, k \in 1..MaxEcdsaNonce :
        /\ PubOf(priv) = pub_key
        /\ signature = sign_transaction(transaction, priv, k)

\* C19: verify_transaction returns a boolean and raises nothing: True for a
\* signature sign_transaction made over the same transaction with the
\* matching key, and the one value False for every failure (a signature that
\* is not hexadecimal or no signature, another key, a transaction that was
\* changed), with nothing that tells the causes apart.
C19_VerifyNeverRaises ==
    result.op = "verify_transaction" =>
        /\ result.outcome.kind = "return"
        /\ IF SignedBy(result.transaction, result.signature, result.pub_key)
           THEN result.outcome = Return(PyBool(TRUE))
           ELSE result.outcome = Return(PyBool(FALSE))

\* a signature of another transaction under the same key was refused
C19_Witness ==
    /\ result.op = "verify_transaction"
    /\ result.outcome = Return(PyBool(FALSE))
    /\ result.pub_key # NoneVal
    /\ \E tx \in Inputs :
          /\ tx # result.transaction
          /\ SignedBy(tx, result.signature, result.pub_key)

(***************************************************************************)
(* The Blockchain right after its construction                             *)
(***************************************************************************)
\* no method has been called since Blockchain(difficulty) returned
Fresh == result.op = "init"

Mint(tx, recipient, amount) ==
    tx.sender = "network" /\ tx.recipient = recipient /\ tx.amount = amount

FreshBalance(a) ==
    CASE a \in {"Alice", "Bob", "Charlie"} -> 1000
      [] a = "miner1" -> 500
      [] OTHER -> -3500

\* C20: right after its construction a Blockchain has one block, the genesis
\* block, of index 0 and previous_hash "0", whose transactions are the four
\* mints of "network" to Alice (1000), Bob (1000), Charlie (1000) and miner1
\* (500); the mempool is empty; get_balance then returns 1000, 1000, 1000 and
\* 500 for these and is_chain_valid() returns True.
C20_FreshBlockchain ==
    /\ [](Fresh =>
            /\ Len(chain) = 1
            /\ chain[1].index = 0
            /\ chain[1].previous_hash = ZeroHash
            /\ Len(BlockTxs(1)) = 4
            /\ Mint(BlockTxs(1)[1], "Alice", 1000)
            /\ Mint(BlockTxs(1)[2], "Bob", 1000)
            /\ Mint(BlockTxs(1)[3], "Charlie", 1000)
            /\ Mint(BlockTxs(1)[4], "miner1", 500)
            /\ lists[mempool] = <<>>)
    /\ [][\A a \in Addresses :
            (Fresh /\ GetBalance(a)) => result'.ret = PyNum(FreshBalance(a))]_vars
    /\ [][(Fresh /\ IsChainValid) => result'.ret = PyBool(TRUE)]_vars

\* get_balance("miner1") was the first call on a Blockchain of a difficulty
\* the genesis hash does not meet
C20_Witness ==
    /\ result.op = "get_balance"
    /\ result.address = "miner1"
    /\ result.ret = PyNum(500)
    /\ Len(chain) = 1
    /\ lists[mempool] = <<>>
    /\ clock = 1
    /\ difficulty = MaxDifficulty

(***************************************************************************)
(* The queries: get_balance, is_chain_valid and the listing of /chain      *)
(***************************************************************************)
\* a dict a route returns
PyDict(d) == <<"dict", d>>

\* lines 722-730: the view of a block
BlockView(block) ==
    [index |-> block.index, timestamp |-> block.timestamp,
     transactions |-> lists[block.transactions], hash |-> block.hash,
     previous_hash |-> block.previous_hash, merkle_root |-> block.merkle_root,
     nonce |-> block.nonce]

\* full_chain(): the views of the blocks, the mempool and the difficulty
FullChain ==
    /\ AllIdle
    /\ LET chain_data == [i \in 1..Len(chain) |-> BlockView(chain[i])]
       IN result' = [op |-> "full_chain",
                     ret |-> PyDict([length |-> Len(chain_data), chain |-> chain_data,
                                     pending_transactions |-> lists[mempool],
                                     difficulty |-> difficulty])]
    /\ UNCHANGED <<lists, chain, mempool, difficulty, clock, pc, loc, submitted, tampers>>

\* the methods called one at a time at one time of the clock, with the listing
NextRead ==
    \/ \E tx \in Inputs : tx.timestamp = clock /\ AddTransaction(tx)
    \/ \E miner \in Miners : MineBlock(miner)
    \/ Query
    \/ FullChain

SpecRead == Init /\ [][NextRead]_vars

\* a query is made
Reading == IsChainValid \/ FullChain \/ \E address \in Addresses : GetBalance(address)

\* C21: get_balance, is_chain_valid and the listing of the chain change
\* nothing: the chain (every field of every block, nonce and hash included,
\* and its transactions), the mempool and the difficulty are after the query
\* what they were before it, and a query made again with no change in between
\* returns what it returned.
C21_QueriesReadOnly ==
    /\ [][Reading =>
              /\ chain' = chain
              /\ lists' = lists
              /\ mempool' = mempool
              /\ difficulty' = difficulty]_vars
    /\ [][(IsChainValid /\ result.op = "is_chain_valid") => result' = result]_vars
    /\ [][(FullChain /\ result.op = "full_chain") => result' = result]_vars
    /\ [][\A address \in Addresses :
              (GetBalance(address) /\ result.op = "get_balance" /\ result.address = address)
                  => result' = result]_vars

\* the chain was listed with two mined blocks and a transaction waiting
C21_Witness ==
    /\ result.op = "full_chain"
    /\ result.ret[2].length = 3
    /\ Len(result.ret[2].pending_transactions) = 1
    /\ result.ret[2].chain[3].nonce = chain[3].nonce
    /\ difficulty = 1

(***************************************************************************)
(* Balances over a mine_block                                              *)
(***************************************************************************)
\* the amounts the transactions of txs pay to a
RECURSIVE CreditsTo(_, _)
CreditsTo(txs, a) ==
    IF txs = <<>> THEN 0
    ELSE CreditsTo(SubSeq(txs, 1, Len(txs) - 1), a)
           + (IF txs[Len(txs)].recipient = a THEN txs[Len(txs)].amount ELSE 0)

\* C22: a mine_block(miner) that returns a block changes the balances so:
\* for every address a, get_balance(a) after it is get_balance(a) before it,
\* plus the amounts of the transactions that were waiting with recipient a,
\* plus 10 if a is the miner, less 10 if a is "network"; the debits, counted
\* while the transactions waited, are not subtracted again.
C22_MineSettlesCredits ==
    [][\A miner \in Miners :
          (MineBlock(miner) /\ lists[mempool] # <<>> /\ pc'[1] = "idle") =>
              \A a \in Addresses :
                  get_balance(chain', lists', mempool', a)
                      = Balance(a) + CreditsTo(lists[mempool], a)
                          + (IF a = miner THEN 10 ELSE 0)
                          - (IF a = "network" THEN 10 ELSE 0)]_vars

\* Alice mined a block that holds a transfer from her and a transfer to her
C22_Witness ==
    /\ result.op = "mine_block"
    /\ result.ret # NoneVal
    /\ Len(chain) = 2
    /\ Len(BlockTxs(2)) = 3
    /\ BlockTxs(2)[1].sender = "Alice"
    /\ BlockTxs(2)[2].recipient = "Alice"
    /\ BlockTxs(2)[3].recipient = "Alice"
    /\ Balance("Alice") = 1000 - 30 + 2000 + 10

(***************************************************************************)
(* The blocks add_transaction and mine_block build, a submitted            *)
(* transaction that reads like a reward among the inputs                   *)
(***************************************************************************)
\* a transaction a caller submits with the fields of a reward
RewardLike == { create_transaction("network", "miner1", MiningReward, now) : now \in 1..MaxClock }

NextReward ==
    \/ \E tx \in Inputs \cup RewardLike : tx.timestamp = clock /\ AddTransaction(tx)
    \/ \E miner \in Miners : MineBlock(miner)

SpecReward == Init /\ [][NextReward]_vars

\* the transactions of blocks 2..n but the last of each, then those of the mempool
RECURSIVE SubmittedInBlocks(_)
SubmittedInBlocks(n) ==
    IF n <= 1 THEN EmptyBag
    ELSE SubmittedInBlocks(n - 1) (+) SeqToBag(SubSeq(BlockTxs(n), 1, Len(BlockTxs(n)) - 1))

\* C23: after any add_transaction and mine_block calls made one at a time,
\* every block has its place in the chain as index and the Merkle root of its
\* transactions, and every block after the genesis block has two transactions
\* or more, the last of which is the reward mine_block made (sender
\* "network", amount 10) and the others of which are the transactions that
\* were submitted: one transaction of the block, no more, comes from mine_block.
C23_BlockShape ==
    /\ \A i \in 1..Len(chain) :
          /\ chain[i].index = i - 1
          /\ chain[i].merkle_root = compute_merkle_root(BlockTxs(i))
    /\ \A i \in 2..Len(chain) :
          LET txs == BlockTxs(i)
          IN /\ Len(txs) >= 2
             /\ txs[Len(txs)].sender = "network"
             /\ txs[Len(txs)].amount = 10
             /\ txs[Len(txs)].recipient \in Miners
    /\ pc[1] = "idle" =>
          SubmittedInBlocks(Len(chain)) (+) SeqToBag(lists[mempool]) = submitted

\* a block holds a submitted transaction with the fields of a reward and,
\* last, the reward of mine_block
C23_Witness ==
    /\ Len(chain) = 3
    /\ Len(BlockTxs(3)) = 3
    /\ BlockTxs(3)[1] \in RewardLike
    /\ BlockTxs(3)[3] = BlockTxs(3)[1]
    /\ chain[3].index = 2
    /\ difficulty = 1

(***************************************************************************)
(* The routes /transactions/new and /mine of create_app.  The amount of a  *)
(* request is float(values['amount']): a Python float, that is a number or *)
(* nan, and every comparison with nan is False while every sum with nan is *)
(* nan.                                                                    *)
(***************************************************************************)
\* float('nan'), coded by a number that is no amount and no sum of amounts
NaN == -1

FAdd(x, y) == IF x = NaN \/ y = NaN THEN NaN ELSE x + y

FSub(x, y) == IF x = NaN \/ y = NaN THEN NaN ELSE x - y

\* x < y and x <= y on floats
FLess(x, y) == x # NaN /\ y # NaN /\ x < y

FLeq(x, y) == x # NaN /\ y # NaN /\ x <= y

\* lines 118-122 over the transactions of one block, from the first on
RECURSIVE FloatBlockBalance(_, _, _)
FloatBlockBalance(txs, address, balance) ==
    IF txs = <<>> THEN balance
    ELSE LET tx == Head(txs)
             debited == IF tx.sender = address THEN FSub(balance, tx.amount) ELSE balance
             credited == IF tx.recipient = address THEN FAdd(debited, tx.amount) ELSE debited
         IN FloatBlockBalance(Tail(txs), address, credited)

\* lines 117-122 over the blocks from block i on
RECURSIVE FloatChainBalance(_, _, _, _, _)
FloatChainBalance(ch, ls, address, i, balance) ==
    IF i > Len(ch) THEN balance
    ELSE FloatChainBalance(ch, ls, address, i + 1,
                           FloatBlockBalance(ls[ch[i].transactions], address, balance))

\* lines 125-127 over the mempool
RECURSIVE FloatPending(_, _, _)
FloatPending(txs, address, balance) ==
    IF txs = <<>> THEN balance
    ELSE LET tx == Head(txs)
         IN FloatPending(Tail(txs), address,
                         IF tx.sender = address THEN FSub(balance, tx.amount) ELSE balance)

\* get_balance(address) on float amounts
get_balance_float(ch, ls, mp, address) ==
    FloatPending(ls[mp], address, FloatChainBalance(ch, ls, address, 1, 0))

\* float(v) of a JSON value: a number, a string or null
to_float(v) ==
    CASE v[1] = "number" -> Return(v[2])
      [] v[1] = "string" -> IF v[2] = "nan" THEN Return(NaN) ELSE Raise("ValueError")
      [] OTHER -> Raise("TypeError")

\* the values of 'amount' in the requests
JsonAmounts ==
    { <<"number", 30>>, <<"number", 2000>>, <<"number", 0>>,
      <<"string", "nan">>, <<"string", "abc">>, <<"null">> }

\* request.get_json() of the requests: with the three fields, or without 'amount'
JsonRequests ==
    { [sender |-> x[1], recipient |-> x[2], amount |-> v] : x \in Transfers, v \in JsonAmounts }
        \cup { [sender |-> x[1], recipient |-> x[2]] : x \in Transfers }

Response(status, body) == [op |-> "new_transaction", status |-> status, body |-> body]

\* new_transaction() for the request values, lines 664-693
NewTransaction(values) ==
    /\ AllIdle
    /\ Len(lists[mempool]) < MaxMempool
    /\ LET parsed == to_float(values.amount)
           amount == parsed.value
           balance == get_balance_float(chain, lists, mempool, values.sender)
           tx == create_transaction(values.sender, values.recipient, amount, clock)
       IN IF ~({"sender", "recipient", "amount"} \subseteq DOMAIN values)
          THEN result' = Response(400, "Champs manquants") /\ UNCHANGED <<lists, submitted>>
          ELSE IF parsed.kind = "raise"
          THEN /\ result' = IF parsed.exc = "ValueError"
                            THEN Response(400, "Le montant doit etre un nombre")
                            ELSE Response(500, parsed.exc)
               /\ UNCHANGED <<lists, submitted>>
          ELSE IF FLeq(amount, 0)
          THEN result' = Response(400, "Le montant doit etre positif")
               /\ UNCHANGED <<lists, submitted>>
          ELSE IF values.sender # "network" /\ FLess(balance, amount)
          THEN result' = Response(400, "Solde insuffisant") /\ UNCHANGED <<lists, submitted>>
          ELSE /\ lists' = [lists EXCEPT ![mempool] = Append(@, tx)]
               /\ submitted' = submitted (+) SetToBag({tx})
               /\ result' = Response(201, Len(lists[mempool]) + 1)
    /\ UNCHANGED <<chain, mempool, difficulty, clock, pc, loc, tampers>>

\* mine() for the query argument miner, lines 696-718
MineRoute(miner) ==
    IF NotMempool(lists[mempool])
    THEN /\ AllIdle
         /\ result' = [op |-> "mine", status |-> 400, body |-> "Aucune transaction a miner"]
         /\ UNCHANGED <<lists, chain, mempool, difficulty, clock, pc, loc, submitted, tampers>>
    ELSE MineBlock(miner)

\* the two routes, one request at a time
NextRoutes ==
    \/ \E values \in JsonRequests : NewTransaction(values)
    \/ \E miner \in Miners : MineRoute(miner)

SpecRoutes == InitMineable /\ [][NextRoutes]_vars

\* the request asks for more than the sender has
Overdrawing(values) ==
    /\ {"sender", "recipient", "amount"} \subseteq DOMAIN values
    /\ values.sender # "network"
    /\ to_float(values.amount).kind = "return"
    /\ ~FLeq(to_float(values.amount).value,
             get_balance_float(chain, lists, mempool, values.sender))

\* C24: with the ledger driven by /transactions/new and /mine, one request at
\* a time, nobody is overdrawn: get_balance(a) >= 0 in every state for every
\* address a but "network", a request for an amount above the balance of its
\* sender being refused with an error and leaving the mempool as it was.
C24_NoOverdraft ==
    /\ [](AllIdle => \A a \in Addresses \ {"network"} :
                        FLeq(0, get_balance_float(chain, lists, mempool, a)))
    /\ [][\A values \in JsonRequests :
              (NewTransaction(values) /\ Overdrawing(values)) =>
                  /\ result'.status = 400
                  /\ lists' = lists]_vars

(***************************************************************************)
(* /transactions/new in concurrent request threads: the statements of one  *)
(* request interleave with those of the others.  The amounts are numbers.  *)
(***************************************************************************)
\* requests admitted in all
MaxRequests == 3

\* amounts of the requests: two of the first are more than Alice has
RequestAmounts == {600, 30}

ConcurrentRequests ==
    { [sender |-> "Alice", recipient |-> r, amount |-> <<"number", n>>] :
        r \in {"Bob", "Charlie"}, n \in RequestAmounts }

Handling == { t \in Threads : pc[t] # "idle" }

\* lines 664-676 in thread t: the request is read and its amount parsed
\* (the requests here have the three fields and a positive number)
N664(t, values) ==
    /\ pc[t] = "idle"
    /\ BagCardinality(submitted) + Cardinality(Handling) < MaxRequests
    /\ loc' = [loc EXCEPT ![t] = [values |-> values, amount |-> to_float(values.amount).value,
                                   balance |-> NoneVal]]
    /\ pc' = [pc EXCEPT ![t] = "n678"]
    /\ UNCHANGED <<lists, chain, mempool, difficulty, clock, result, submitted, tampers>>

\* line 678: balance = blockchain.get_balance(values['sender'])
N678(t) ==
    /\ pc[t] = "n678"
    /\ loc' = [loc EXCEPT ![t].balance = get_balance_float(chain, lists, mempool,
                                                            loc[t].values.sender)]
    /\ pc' = [pc EXCEPT ![t] = "n679"]
    /\ UNCHANGED <<lists, chain, mempool, difficulty, clock, result, submitted, tampers>>

\* lines 679-682: if balance < amount: return the error
N679(t) ==
    /\ pc[t] = "n679"
    /\ IF FLess(loc[t].balance, loc[t].amount)
       THEN /\ result' = Response(400, "Solde insuffisant")
            /\ pc' = [pc EXCEPT ![t] = "idle"]
            /\ loc' = [loc EXCEPT ![t] = NoLocals]
       ELSE /\ pc' = [pc EXCEPT ![t] = "n684"]
            /\ UNCHANGED <<loc, result>>
    /\ UNCHANGED <<lists, chain, mempool, difficulty, clock, submitted, tampers>>

\* lines 684-693: tx = create_transaction(...); blockchain.add_transaction(tx)
N684(t) ==
    /\ pc[t] = "n684"
    /\ LET tx == create_transaction(loc[t].values.sender, loc[t].values.recipient,
                                    loc[t].amount, clock)
       IN /\ lists' = [lists EXCEPT ![mempool] = Append(@, tx)]
          /\ submitted' = submitted (+) SetToBag({tx})
          /\ result' = Response(201, Len(lists[mempool]) + 1)
    /\ pc' = [pc EXCEPT ![t] = "idle"]
    /\ loc' = [loc EXCEPT ![t] = NoLocals]
    /\ UNCHANGED <<chain, mempool, difficulty, clock, tampers>>

\* one statement of new_transaction in thread t
NewTransactionStep(t) ==
    \/ \E values \in ConcurrentRequests : N664(t, values)
    \/ N678(t)
    \/ N679(t)
    \/ N684(t)

NextConcurrentRoutes == \E t \in Threads : NewTransactionStep(t)

SpecConcurrentRoutes == InitMineable /\ [][NextConcurrentRoutes]_vars

\* C25: with /transactions/new handled in concurrent threads too, for every
\* interleaving of requests of one sender that is not "network", the debits
\* waiting in the mempool are never more than the funds of the sender and
\* get_balance(sender) is never negative: the test of the balance and the
\* queueing act as one step.
C25_NoConcurrentOverdraft ==
    \A a \in Addresses \ {"network"} :
        /\ PendingDebit(lists[mempool], a) <= ChainBalance(chain, lists, a)
        /\ FLeq(0, get_balance_float(chain, lists, mempool, a))

====
